---- MODULE Spec2Model ----
(***************************************************************************)
(* Burger Queen API: the users collection, the login route and the        *)
(* /users routes (src/routes/users.js, src/routes/auth.js), with the      *)
(* bootstrap admin provisioning that runs at process start.               *)
(***************************************************************************)
EXTENDS Naturals, Integers, Sequences, FiniteSets, TLC

\* ------------------------------------------------------------------ bounds
MaxIds == 3        \* ObjectIds the store ever allocates
MaxTokens == 2     \* distinct tokens ever signed
MaxInflight == 2   \* POST /users requests between their findOne and insertOne
MaxBoots == 2      \* process starts

\* ------------------------------------------------------- JavaScript values
Undefined == "<undefined>"
Null == "<null>"
Truthy(v) == v \notin {Undefined, Null, ""}

\* The spelling of every string the model uses, one character per element.
DigitStr == <<"1", "2", "3", "4", "5", "6", "7", "8", "9">>
IdOf(n) == "00000000000000000000000" \o DigitStr[n]
IdStrings == {IdOf(n) : n \in 1..9}
Chars(s) ==
  IF s \in IdStrings
  THEN [i \in 1..24 |-> IF i < 24 THEN "0" ELSE DigitStr[CHOOSE n \in 1..9 : s = IdOf(n)]]
  ELSE CASE s = "a@x" -> <<"a", "@", "x">>
         [] s = "b@x" -> <<"b", "@", "x">>
         [] s = "abc" -> <<"a", "b", "c">>
         [] s = "abcdefghijkl" -> <<"a", "b", "c", "d", "e", "f", "g", "h", "i", "j", "k", "l">>
         [] OTHER -> <<>>

\* String.prototype.includes for a one-character needle
Includes(s, c) == \E i \in 1..Len(Chars(s)) : Chars(s)[i] = c

HexDigits == {"0", "1", "2", "3", "4", "5", "6", "7", "8", "9",
              "a", "b", "c", "d", "e", "f", "A", "B", "C", "D", "E", "F"}
IsHex24(s) == Len(Chars(s)) = 24 /\ \A i \in 1..24 : Chars(s)[i] \in HexDigits

\* new ObjectId(uid): the outcomes the installed bson can produce.  A 24 hex
\* string is parsed; a 12 character string is taken as 12 raw bytes by bson 4
\* and rejected by bson 5; every other string throws.
ObjectIdOutcomes(uid) ==
  IF IsHex24(uid) THEN {"ok"}
  ELSE IF Len(Chars(uid)) = 12 THEN {"ok", "throw"}
  ELSE {"throw"}

\* bcrypt.hashSync(p, 10) / bcrypt.hash(p, 10), the salt abstracted away
Hash(p) == "bcrypt:" \o p

\* -------------------------------------------------------------- the inputs
AdminEmail == "a@x"
AdminPassword == "p"
Emails == {"a@x", "b@x"}
Configs == {[adminEmail |-> AdminEmail, adminPassword |-> AdminPassword],
            [adminEmail |-> Undefined, adminPassword |-> Undefined]}

Body(e, p, r) == [email |-> e, password |-> p, role |-> r]
EmptyBody == Body(Undefined, Undefined, Undefined)
\* the bodies of the single requests that get recorded
PatchBodies == {Body(e, p, r) : e \in {Undefined, "", "a@x", "b@x"},
                                p \in {Undefined, "", "q", Null},
                                r \in {Undefined, "", "admin", "user"}}
PostBodies == {Body(e, "p", r) : e \in Emails, r \in {"admin", "user"}}
                \cup {Body("b@x", "p", Undefined), Body("", "p", "user")}
LoginBodies == {Body(e, p, Undefined) : e \in Emails, p \in {"p", "q"}}
                 \cup {Body("a@x", Undefined, Undefined)}
Uids == Emails \cup {IdOf(n) : n \in 1..MaxIds} \cup {"abc", "abcdefghijkl"}

\* the inputs of the runs that start from the empty store
RunPatchBodies == {Body("a@x", Undefined, Undefined), Body("b@x", Undefined, Undefined),
                   Body(Undefined, Null, Undefined), Body(Undefined, Undefined, "user")}
RunPostBodies == {Body(e, "p", "user") : e \in Emails}
RunLoginBodies == {Body(e, "p", Undefined) : e \in Emails}
RunUids == Emails \cup {IdOf(n) : n \in 1..MaxIds}

\* Object.keys(req.body)
Keys(body) == {k \in {"email", "password", "role"} : body[k] # Undefined}

NoResponse == 0
NoToken == [userId |-> Null, email |-> Null, rol |-> Null]
NoOut == [id |-> Null, email |-> Null, role |-> Null]
NoLast == [op |-> "none", caller |-> NoToken, uid |-> Null, body |-> EmptyBody,
           status |-> NoResponse, out |-> NoOut]
\* no connection opened, no query issued
NoIo == [opened |-> 0, closed |-> 0, queries |-> 0, failed |-> FALSE]
Idle == [pc |-> "idle", caller |-> NoToken, body |-> EmptyBody]
AdminConfig == [adminEmail |-> AdminEmail, adminPassword |-> AdminPassword]

VARIABLES
  users,    \* the users collection: records _id, email, password, role
  nextId,   \* how many ObjectIds the store has allocated
  tokens,   \* the claims of every token signed so far
  config,   \* app.get('config'): adminEmail, adminPassword
  boot,     \* "start" until initAdminUser has called next, then "done"
  boots,    \* process starts so far
  posts,    \* the POST /users requests awaiting their insertOne
  last,     \* the request completed last and its response, when recorded
  record,   \* whether completed requests are recorded in last
  orders,   \* the orders collection: records _id, userId, client, products, status
  products, \* the products collection: records _id, name, price
  io,       \* the connections and queries of the recorded request
  served    \* how many requests have been completed and recorded

vars == <<users, nextId, tokens, config, boot, boots, posts, last, record,
          orders, products, io, served>>

Init ==
  /\ users = {}
  /\ nextId = 0
  /\ tokens = {}
  /\ config \in Configs
  /\ boot = "start"
  /\ boots = 1
  /\ posts = [s \in 1..MaxInflight |-> Idle]
  /\ last = NoLast
  /\ orders = {}
  /\ products = {}
  /\ io = NoIo
  /\ served = 0
  /\ record = FALSE

\* ------------------------------------------------------------- middleware
\* What the authentication middleware leaves on req for a verified token.
Authenticate(t) ==
  [userId |-> t.userId, thisEmail |-> t.email, isAdmin |-> (t.rol = "admin")]

RequireAdminAnyToken(t) == TRUE

\* requireAdmin lets the request through to the handler
RequireAdmin(t) == Authenticate(t).isAdmin = TRUE

\* The server listens once initAdminUser has called next.
Listening == boot = "done"

\* ------------------------------------------------------------ store access
FindByEmailNoMatch(us, e) == {}

FindByEmail(us, e) == {u \in us : u.email = e}

FindByIdAnyRecord(us, id) == us

FindById(us, id) == {u \in us : u._id = id}

SetFieldsWholeDocument(u, body) ==
  [u EXCEPT !.email = body.email, !.password = body.password, !.role = body.role]

\* { $set: body } applied to one document
SetFields(u, body) ==
  [u EXCEPT !.email = IF body.email # Undefined THEN body.email ELSE @,
            !.password = IF body.password # Undefined THEN body.password ELSE @,
            !.role = IF body.role # Undefined THEN body.role ELSE @]

\* the id, email and role a handler copies into its JSON response
Public(u) == [id |-> u._id, email |-> u.email, role |-> u.role]

Answer(op, t, uid, body, status, out) ==
  /\ last' = IF record
             THEN [op |-> op, caller |-> t, uid |-> uid, body |-> body,
                   status |-> status, out |-> out]
             ELSE last
  /\ served' = IF record THEN served + 1 ELSE served

\* The MongoClients the request connected and closed, the operations it
\* issued on a collection, and whether the store rejected one of them.
Conn(o, c, q) ==
  io' = IF record
        THEN [opened |-> o, closed |-> c, queries |-> q, failed |-> FALSE]
        ELSE io

\* ---------------------------------------------------------- initAdminUser
InitAdminUserStoreNoLookup(us, nid, cfg) ==
  IF ~Truthy(cfg.adminEmail) \/ ~Truthy(cfg.adminPassword)
  THEN [users |-> us, nextId |-> nid]
  ELSE [users |-> us \cup {[_id |-> IdOf(nid + 1), email |-> cfg.adminEmail,
                            password |-> Hash(cfg.adminPassword), role |-> "admin"]},
        nextId |-> nid + 1]

InitAdminUserStore(us, nid, cfg) ==
  IF ~Truthy(cfg.adminEmail) \/ ~Truthy(cfg.adminPassword)
  THEN [users |-> us, nextId |-> nid]
  ELSE IF FindByEmail(us, cfg.adminEmail) = {}
       THEN [users |-> us \cup {[_id |-> IdOf(nid + 1), email |-> cfg.adminEmail,
                                 password |-> Hash(cfg.adminPassword), role |-> "admin"]},
             nextId |-> nid + 1]
       ELSE [users |-> us, nextId |-> nid]

InitAdminUser ==
  /\ boot = "start"
  /\ LET r == InitAdminUserStore(users, nextId, config)
     IN /\ r.nextId <= MaxIds
        /\ users' = r.users
        /\ nextId' = r.nextId
  /\ boot' = "done"
  /\ UNCHANGED <<tokens, config, boots, posts, last, record, orders, products, io, served>>

\* The process stops and starts again: the store and the signed tokens stay,
\* the requests in flight are lost.
Restart ==
  /\ boot = "done"
  /\ boots < MaxBoots
  /\ boots' = boots + 1
  /\ boot' = "start"
  /\ config' \in Configs
  /\ posts' = [s \in 1..MaxInflight |-> Idle]
  /\ last' = NoLast
  /\ io' = NoIo
  /\ served' = 0
  /\ UNCHANGED <<users, nextId, tokens, record, orders, products>>

\* ------------------------------------------------------------ POST /login
Login(body) ==
  /\ Listening
  /\ IF ~Truthy(body.email) \/ ~Truthy(body.password)
     THEN /\ Answer("login", NoToken, Null, body, 400, NoOut) /\ Conn(0, 0, 0)
          /\ UNCHANGED tokens
     ELSE IF FindByEmail(users, body.email) = {}
     THEN /\ Answer("login", NoToken, Null, body, 404, NoOut) /\ Conn(1, 0, 1)
          /\ UNCHANGED tokens
     ELSE \E user \in FindByEmail(users, body.email) :
            IF ~Truthy(user.password)
            THEN \* bcrypt.compare rejects: no response is sent
                 /\ Answer("login", NoToken, Null, body, NoResponse, NoOut) /\ Conn(1, 0, 1)
                 /\ UNCHANGED tokens
            ELSE IF user.password # Hash(body.password)
            THEN /\ Answer("login", NoToken, Null, body, 400, NoOut) /\ Conn(1, 0, 1)
                 /\ UNCHANGED tokens
            ELSE LET t == [userId |-> user._id, email |-> user.email, rol |-> user.role]
                 IN /\ t \in tokens \/ Cardinality(tokens) < MaxTokens
                    /\ tokens' = tokens \cup {t}
                    /\ Answer("login", t, Null, body, 200, NoOut) /\ Conn(1, 0, 1)
  /\ UNCHANGED <<users, nextId, config, boot, boots, posts, record, orders, products>>

\* --------------------------------------------------------- GET /users/:uid
IsAdminAnyCaller(req) == TRUE

\* req.isAdmin === true
IsAdmin(req) == req.isAdmin = TRUE

GetAuthorizedNoEmail(req, uid) == req.userId = uid \/ IsAdmin(req)

GetAuthorized(req, uid) == req.userId = uid \/ IsAdmin(req) \/ req.thisEmail = uid

\* uid === Number compares a string with the Number constructor
UidIsNumber(uid) == FALSE

GetUser(t, uid) ==
  /\ Listening
  /\ LET req == Authenticate(t)
         isAuthorized == GetAuthorized(req, uid)
         found == IF Includes(uid, "@") THEN FindByEmail(users, uid)
                  ELSE IF UidIsNumber(uid) THEN FindById(users, uid)
                  ELSE {}
     IN IF ~isAuthorized
        THEN Answer("GET", t, uid, EmptyBody, 403, NoOut) /\ Conn(1, 1, 0)
        ELSE IF found # {}
        THEN \E u \in found : Answer("GET", t, uid, EmptyBody, 200, Public(u)) /\ Conn(1, 1, 1)
        ELSE Answer("GET", t, uid, EmptyBody, 404, NoOut) /\ Conn(1, 1, IF Includes(uid, "@") THEN 1 ELSE 0)
  /\ UNCHANGED <<users, nextId, tokens, config, boot, boots, posts, record, orders, products>>

\* ------------------------------------------------------- PATCH /users/:uid
EmptyUpdateNoKeys(body) == body.email = "" \/ body.password = ""

\* the body names nothing to update, or an empty email or password
EmptyUpdate(body) ==
  body.email = "" \/ body.password = "" \/ Cardinality(Keys(body)) = 0

PatchIsUser(req, uid) == req.userId = uid \/ req.thisEmail = uid

PatchAuthorizedAnyCaller(req, uid) ==
  PatchIsUser(req, uid) \/ IsAdmin(req) \/ req.thisEmail # Undefined

PatchAuthorized(req, uid) == PatchIsUser(req, uid) \/ IsAdmin(req)

\* role !== req.isAdmin: a string is never strictly equal to a boolean
RoleDiffers(role, isAdminFlag) == TRUE

RoleChangeDenied(req, body) ==
  ~IsAdmin(req) /\ Truthy(body.role) /\ RoleDiffers(body.role, req.isAdmin)

PatchUser(t, uid, body) ==
  /\ Listening
  /\ LET req == Authenticate(t)
         isAuthorized == PatchAuthorized(req, uid)
         set == IF Truthy(body.password)
                THEN [body EXCEPT !.password = Hash(body.password)]
                ELSE body
     IN IF EmptyUpdate(body)
        THEN /\ Answer("PATCH", t, uid, body, 400, NoOut) /\ Conn(1, 1, 0)
             /\ UNCHANGED users
        ELSE IF ~isAuthorized
        THEN /\ Answer("PATCH", t, uid, body, 403, NoOut) /\ Conn(1, 1, 0)
             /\ UNCHANGED users
        ELSE IF RoleChangeDenied(req, body)
        THEN /\ Answer("PATCH", t, uid, body, 403, NoOut) /\ Conn(1, 1, 0)
             /\ UNCHANGED users
        ELSE \E ctor \in IF Includes(uid, "@") THEN {"ok"} ELSE ObjectIdOutcomes(uid) :
             IF ctor = "throw"
             THEN \* the handler's promise rejects: no response is sent
                  /\ Answer("PATCH", t, uid, body, NoResponse, NoOut) /\ Conn(1, 0, 0)
                  /\ UNCHANGED users
             ELSE LET found == IF Includes(uid, "@") THEN FindByEmail(users, uid)
                               ELSE FindById(users, uid)
                  IN IF found # {}
                     THEN \E u \in found :
                            \* user.value is the document before or after the
                            \* update, as the driver reads returnOriginal
                            \E value \in {u, SetFields(u, set)} :
                              /\ users' = (users \ {u}) \cup {SetFields(u, set)}
                              /\ Answer("PATCH", t, uid, body, 200, Public(value)) /\ Conn(1, 1, 1)
                     ELSE /\ Answer("PATCH", t, uid, body, 404, NoOut) /\ Conn(1, 1, 1)
                          /\ UNCHANGED users
  /\ UNCHANGED <<nextId, tokens, config, boot, boots, posts, record, orders, products>>

\* ------------------------------------------------------ DELETE /users/:uid
DeleteAuthorizedIdOnly(req, uid) == req.userId = uid \/ IsAdmin(req)

DeleteAuthorized(req, uid) == req.userId = uid \/ IsAdmin(req) \/ req.thisEmail = uid

\* the findOneAndDelete issued ahead of the authorization check
DeleteUserBeforeCheck(t, uid) ==
  /\ Listening
  /\ LET found == IF Includes(uid, "@") THEN FindByEmail(users, uid)
                  ELSE FindById(users, uid)
     IN IF found = {}
        THEN /\ Answer("DELETE", t, uid, EmptyBody, 404, NoOut) /\ Conn(1, 1, 1)
             /\ UNCHANGED users
        ELSE \E u \in found :
               /\ users' = users \ {u}
               /\ IF DeleteAuthorized(Authenticate(t), uid)
                  THEN Answer("DELETE", t, uid, EmptyBody, 200, Public(u)) /\ Conn(1, 1, 1)
                  ELSE Answer("DELETE", t, uid, EmptyBody, 403, NoOut) /\ Conn(1, 1, 1)
  /\ UNCHANGED <<nextId, tokens, config, boot, boots, posts, record, orders, products>>

DeleteUser(t, uid) ==
  /\ Listening
  /\ LET req == Authenticate(t)
         isAuthorized == DeleteAuthorized(req, uid)
     IN IF ~isAuthorized
        THEN /\ Answer("DELETE", t, uid, EmptyBody, 403, NoOut) /\ Conn(1, 1, 0)
             /\ UNCHANGED users
        ELSE \E ctor \in IF Includes(uid, "@") THEN {"ok"} ELSE ObjectIdOutcomes(uid) :
             IF ctor = "throw"
             THEN /\ Answer("DELETE", t, uid, EmptyBody, NoResponse, NoOut) /\ Conn(1, 0, 0)
                  /\ UNCHANGED users
             ELSE LET found == IF Includes(uid, "@") THEN FindByEmail(users, uid)
                               ELSE FindById(users, uid)
                  IN IF found # {}
                     THEN \E u \in found :
                            /\ users' = users \ {u}
                            /\ Answer("DELETE", t, uid, EmptyBody, 200, Public(u)) /\ Conn(1, 1, 1)
                     ELSE /\ Answer("DELETE", t, uid, EmptyBody, 404, NoOut) /\ Conn(1, 1, 1)
                          /\ UNCHANGED users
  /\ UNCHANGED <<nextId, tokens, config, boot, boots, posts, record, orders, products>>

\* ------------------------------------------------------------- POST /users
\* requireAdmin, the validation and the findOne({ email })
PostUsersFind(s, t, body) ==
  /\ Listening
  /\ posts[s] = Idle
  /\ \A r \in 1..(s - 1) : posts[r] # Idle
  /\ IF ~RequireAdmin(t)
     THEN /\ Answer("POST", t, Null, body, 403, NoOut) /\ Conn(0, 0, 0)
          /\ UNCHANGED posts
     ELSE IF ~Truthy(body.email) \/ ~Truthy(body.password) \/ ~Truthy(body.role)
     THEN /\ Answer("POST", t, Null, body, 400, NoOut) /\ Conn(0, 0, 0)
          /\ UNCHANGED posts
     ELSE IF ~IsAdmin(Authenticate(t))
     THEN /\ Answer("POST", t, Null, body, 403, NoOut) /\ Conn(1, 1, 0)
          /\ UNCHANGED posts
     ELSE IF FindByEmail(users, body.email) # {}
     THEN /\ Answer("POST", t, Null, body, 403, NoOut) /\ Conn(1, 1, 1)
          /\ UNCHANGED posts
     ELSE /\ posts' = [posts EXCEPT ![s] = [pc |-> "insert", caller |-> t, body |-> body]]
          /\ UNCHANGED <<last, io, served>>
  /\ UNCHANGED <<users, nextId, tokens, config, boot, boots, record, orders, products>>

\* the insertOne(newUser) and the 200 response
PostUsersInsert(s) ==
  /\ Listening
  /\ posts[s].pc = "insert"
  /\ nextId < MaxIds
  /\ LET body == posts[s].body
         newUser == [_id |-> IdOf(nextId + 1), email |-> body.email,
                     password |-> Hash(body.password), role |-> body.role]
     IN /\ users' = users \cup {newUser}
        /\ nextId' = nextId + 1
        /\ Answer("POST", posts[s].caller, Null, body, 200, Public(newUser)) /\ Conn(1, 1, 2)
  /\ posts' = [posts EXCEPT ![s] = Idle]
  /\ UNCHANGED <<tokens, config, boot, boots, record, orders, products>>

\* ---------------------------------------------------- orders and products
OrderStatusesAnyString ==
  {Undefined, "delivered", "pending", "canceled", "delivering", "preparing", "cooking"}

OrderStatuses == {"delivered", "pending", "canceled", "delivering", "preparing"}

\* the values a body gives products: absent, the empty string, the empty
\* array, arrays of items, and a string that is no array
Arrays == {"[]", "[p1]", "[p2]"}
IsArray(v) == v \in Arrays
ArrayLengthNeverZero(v) == 1

ArrayLength(v) == IF v = "[]" THEN 0 ELSE 1

\* the values a body gives price: absent, the empty string, a number, a string
IsNumber(v) == v \in {"num:5"}

OrderPostBodies ==
  [userId : {Undefined, "", IdOf(1)}, client : {Undefined, "c1"},
   products : {Undefined, "", "[]", "[p1]", "x"}]
OrderPatchBodies ==
  [userId : {Undefined, "", IdOf(1)}, client : {Undefined, "", "c2"},
   products : {Undefined, "", "[p2]", "x"},
   status : {Undefined, "", "delivered", "preparing", "cooking"}]
ProductBodies ==
  [name : {Undefined, "", "burger"}, price : {Undefined, "", "num:5", "str:5"}]
ResourceIds == {IdOf(n) : n \in 1..MaxIds} \cup {"abc"}

\* Object.keys(req.body) of an order or a product body
FieldsNamed(body) == {k \in DOMAIN body : body[k] # Undefined}

\* { $set: req.body } applied to one order or product
SetNamed(d, body) ==
  [k \in DOMAIN d |-> IF k \in FieldsNamed(body) THEN body[k] ELSE d[k]]

FindOrder(os, id) == {o \in os : o._id = id}
FindProduct(ps, id) == {q \in ps : q._id = id}

\* next(err): the request ends in the fault handler
NextErr == 500

\* the store rejects nothing, the connect, or a query
StoreFaults == {"none", "connect", "query"}
Pages == {0, 1, 2}
Limits == {0, 1, 10}

\* the number an ObjectId was allocated at: the natural order of a collection
IdNum(id) == CHOOSE n \in 1..MaxIds : IdOf(n) = id
Rank(coll, d) == Cardinality({e \in coll : IdNum(e._id) < IdNum(d._id)})

\* find({}).skip(startIndex).limit(limitNumber).toArray(); limit(0) is no limit
PageOf(coll, page, limit) ==
  LET startIndex == (page - 1) * limit
  IN {d \in coll : /\ Rank(coll, d) >= startIndex
                   /\ limit = 0 \/ Rank(coll, d) < startIndex + limit}

\* skip() rejects a negative value
SkipRejects(page, limit) == (page - 1) * limit < 0

ConnFailed(o, c, q) ==
  io' = IF record
        THEN [opened |-> o, closed |-> c, queries |-> q, failed |-> TRUE]
        ELSE io

\* ---------------------------------------------------------------- GET /users
GetUsers(t, page, limit, fault) ==
  /\ Listening
  /\ IF ~RequireAdmin(t)
     THEN Answer("GET /users", t, Null, EmptyBody, 403, [list |-> {}]) /\ Conn(0, 0, 0)
     ELSE IF fault = "connect"
     THEN Answer("GET /users", t, Null, EmptyBody, NextErr, [list |-> {}])
          /\ ConnFailed(1, 1, 0)
     ELSE IF fault = "query" \/ SkipRejects(page, limit)
     THEN Answer("GET /users", t, Null, EmptyBody, NextErr, [list |-> {}])
          /\ ConnFailed(1, 1, IF fault = "query" THEN 1 ELSE 2)
     ELSE Answer("GET /users", t, Null, EmptyBody, 200,
                 [list |-> PageOf(users, page, limit)]) /\ Conn(1, 1, 2)
  /\ UNCHANGED <<users, nextId, tokens, config, boot, boots, posts, record, orders, products>>

\* --------------------------------------------------------------- GET /orders
GetOrders(t, page, limit, fault) ==
  /\ Listening
  /\ IF fault = "connect"
     THEN \* the handler's promise rejects: no response is sent
          Answer("GET /orders", t, Null, EmptyBody, NoResponse, [list |-> {}])
          /\ ConnFailed(1, 0, 0)
     ELSE IF fault = "query" \/ SkipRejects(page, limit)
     THEN Answer("GET /orders", t, Null, EmptyBody, NoResponse, [list |-> {}])
          /\ ConnFailed(1, 0, IF fault = "query" THEN 1 ELSE 2)
     ELSE Answer("GET /orders", t, Null, EmptyBody, 200,
                 [list |-> PageOf(orders, page, limit)]) /\ Conn(1, 0, 2)
  /\ UNCHANGED <<users, nextId, tokens, config, boot, boots, posts, record, orders, products>>

\* -------------------------------------------------------------- POST /orders
PostOrders(t, body) ==
  /\ Listening
  /\ IF ~Truthy(body.userId) \/ ~Truthy(body.products) \/ ArrayLength(body.products) = 0
     THEN /\ Answer("POST /orders", t, Null, body, 400, NoOut) /\ Conn(0, 0, 0)
          /\ UNCHANGED <<orders, nextId>>
     ELSE LET newOrder == [_id |-> IdOf(nextId + 1), userId |-> body.userId,
                           client |-> body.client, products |-> body.products,
                           status |-> "pending"]
          IN /\ nextId < MaxIds
             /\ orders' = orders \cup {newOrder}
             /\ nextId' = nextId + 1
             /\ IF IsArray(body.products)
                THEN Answer("POST /orders", t, Null, body, 200, newOrder) /\ Conn(1, 1, 1)
                ELSE \* products.map is not a function: caught, next(error)
                     Answer("POST /orders", t, Null, body, NextErr, NoOut) /\ Conn(1, 1, 1)
  /\ UNCHANGED <<users, tokens, config, boot, boots, posts, record, products>>

\* ----------------------------------------------------- PATCH /orders/:orderId
EmptyOrderUpdate(body) ==
  \/ Cardinality(FieldsNamed(body)) = 0
  \/ body.userId = "" \/ body.client = "" \/ body.products = "" \/ body.status = ""

PatchOrder(t, orderId, body) ==
  /\ Listening
  /\ LET req == Authenticate(t)
     IN IF EmptyOrderUpdate(body)
        THEN /\ Answer("PATCH /orders", t, orderId, body, 400, NoOut) /\ Conn(1, 1, 0)
             /\ UNCHANGED orders
        ELSE IF ~IsAdmin(req)
        THEN /\ Answer("PATCH /orders", t, orderId, body, 403, NoOut) /\ Conn(1, 1, 0)
             /\ UNCHANGED orders
        ELSE IF ~IsHex24(orderId)
        THEN /\ Answer("PATCH /orders", t, orderId, body, 404, NoOut) /\ Conn(1, 1, 0)
             /\ UNCHANGED orders
        ELSE IF body.status \notin OrderStatuses
        THEN /\ Answer("PATCH /orders", t, orderId, body, 400, NoOut) /\ Conn(1, 1, 0)
             /\ UNCHANGED orders
        ELSE IF FindOrder(orders, orderId) = {}
        THEN /\ Answer("PATCH /orders", t, orderId, body, 404, NoOut) /\ Conn(1, 1, 1)
             /\ UNCHANGED orders
        ELSE \E o \in FindOrder(orders, orderId) :
             \E value \in {o, SetNamed(o, body)} :
               /\ orders' = (orders \ {o}) \cup {SetNamed(o, body)}
               /\ IF IsArray(value.products)
                  THEN Answer("PATCH /orders", t, orderId, body, 200, value) /\ Conn(1, 1, 1)
                  ELSE \* order.value.products.map is not a function
                       Answer("PATCH /orders", t, orderId, body, NoResponse, NoOut)
                       /\ Conn(1, 0, 1)
  /\ UNCHANGED <<users, nextId, tokens, config, boot, boots, posts, record, products>>

\* ---------------------------------------------------- DELETE /orders/:orderId
DeleteOrder(t, orderId) ==
  /\ Listening
  /\ LET req == Authenticate(t)
     IN IF ~IsAdmin(req)
        THEN /\ Answer("DELETE /orders", t, orderId, EmptyBody, 403, NoOut) /\ Conn(1, 1, 0)
             /\ UNCHANGED orders
        ELSE IF ~IsHex24(orderId)
        THEN /\ Answer("DELETE /orders", t, orderId, EmptyBody, 404, NoOut) /\ Conn(1, 1, 0)
             /\ UNCHANGED orders
        ELSE IF FindOrder(orders, orderId) = {}
        THEN /\ Answer("DELETE /orders", t, orderId, EmptyBody, 404, NoOut) /\ Conn(1, 1, 1)
             /\ UNCHANGED orders
        ELSE \E o \in FindOrder(orders, orderId) :
               /\ orders' = orders \ {o}
               /\ Answer("DELETE /orders", t, orderId, EmptyBody, 200, o) /\ Conn(1, 1, 1)
  /\ UNCHANGED <<users, nextId, tokens, config, boot, boots, posts, record, products>>

\* ------------------------------------------------------------ POST /products
PostProducts(t, body) ==
  /\ Listening
  /\ IF ~RequireAdmin(t)
     THEN /\ Answer("POST /products", t, Null, body, 403, NoOut) /\ Conn(0, 0, 0)
          /\ UNCHANGED <<products, nextId>>
     ELSE IF ~Truthy(body.name) \/ ~Truthy(body.price)
     THEN /\ Answer("POST /products", t, Null, body, 400, NoOut) /\ Conn(0, 0, 0)
          /\ UNCHANGED <<products, nextId>>
     ELSE IF ~IsAdmin(Authenticate(t))
     THEN /\ Answer("POST /products", t, Null, body, 403, NoOut) /\ Conn(1, 1, 0)
          /\ UNCHANGED <<products, nextId>>
     ELSE LET product == [_id |-> IdOf(nextId + 1), name |-> body.name,
                          price |-> body.price]
          IN /\ nextId < MaxIds
             /\ products' = products \cup {product}
             /\ nextId' = nextId + 1
             /\ Answer("POST /products", t, Null, body, 200, product) /\ Conn(1, 1, 1)
  /\ UNCHANGED <<users, tokens, config, boot, boots, posts, record, orders>>

\* ------------------------------------------------- PATCH /products/:productId
EmptyProductUpdate(body) ==
  \/ Cardinality(FieldsNamed(body)) = 0
  \/ body.name = "" \/ body.price = "" \/ ~IsNumber(body.price)

PatchProduct(t, productId, body) ==
  /\ Listening
  /\ IF ~RequireAdmin(t)
     THEN /\ Answer("PATCH /products", t, productId, body, 403, NoOut) /\ Conn(0, 0, 0)
          /\ UNCHANGED products
     ELSE IF EmptyProductUpdate(body)
     THEN /\ Answer("PATCH /products", t, productId, body, 400, NoOut) /\ Conn(1, 1, 0)
          /\ UNCHANGED products
     ELSE IF ~IsAdmin(Authenticate(t))
     THEN /\ Answer("PATCH /products", t, productId, body, 403, NoOut) /\ Conn(1, 1, 0)
          /\ UNCHANGED products
     ELSE IF ~IsHex24(productId)
     THEN /\ Answer("PATCH /products", t, productId, body, 404, NoOut) /\ Conn(1, 1, 0)
          /\ UNCHANGED products
     ELSE IF FindProduct(products, productId) = {}
     THEN /\ Answer("PATCH /products", t, productId, body, 404, NoOut) /\ Conn(1, 1, 1)
          /\ UNCHANGED products
     ELSE \E q \in FindProduct(products, productId) :
          \E value \in {q, SetNamed(q, body)} :
            /\ products' = (products \ {q}) \cup {SetNamed(q, body)}
            /\ Answer("PATCH /products", t, productId, body, 200, value) /\ Conn(1, 1, 1)
  /\ UNCHANGED <<users, nextId, tokens, config, boot, boots, posts, record, orders>>

\* ------------------------------------------------ DELETE /products/:productId
DeleteProduct(t, productId) ==
  /\ Listening
  /\ IF ~RequireAdmin(t)
     THEN /\ Answer("DELETE /products", t, productId, EmptyBody, 403, NoOut) /\ Conn(0, 0, 0)
          /\ UNCHANGED products
     ELSE IF ~IsAdmin(Authenticate(t))
     THEN /\ Answer("DELETE /products", t, productId, EmptyBody, 403, NoOut) /\ Conn(1, 1, 0)
          /\ UNCHANGED products
     ELSE IF ~IsHex24(productId)
     THEN /\ Answer("DELETE /products", t, productId, EmptyBody, 404, NoOut) /\ Conn(1, 1, 0)
          /\ UNCHANGED products
     ELSE IF FindProduct(products, productId) = {}
     THEN /\ Answer("DELETE /products", t, productId, EmptyBody, 404, NoOut) /\ Conn(1, 1, 1)
          /\ UNCHANGED products
     ELSE \E q \in FindProduct(products, productId) :
            /\ products' = products \ {q}
            /\ Answer("DELETE /products", t, productId, EmptyBody, 200, q) /\ Conn(1, 1, 1)
  /\ UNCHANGED <<users, nextId, tokens, config, boot, boots, posts, record, orders>>

\* ------------------------------------------------------ the specification
\* The service from its first start on the empty store.
Next ==
  \/ InitAdminUser
  \/ Restart
  \/ \E body \in RunLoginBodies : Login(body)
  \/ \E t \in tokens, uid \in RunUids, body \in RunPatchBodies : PatchUser(t, uid, body)
  \/ \E t \in tokens, uid \in RunUids : DeleteUser(t, uid)
  \/ \E s \in 1..MaxInflight, t \in tokens, body \in RunPostBodies : PostUsersFind(s, t, body)
  \/ \E s \in 1..MaxInflight : PostUsersInsert(s)

Spec == Init /\ [][Next]_vars

\* One recorded request, served on any store the service can hold and for any
\* claims a token can carry.
StoredPasswords == {Hash("p")}
StoredRoles == {"admin", "user", ""}
Fields == [email : Emails, password : StoredPasswords, role : StoredRoles]
Document(id, f) ==
  [_id |-> id, email |-> f.email, password |-> f.password, role |-> f.role]
Stores(n) ==
  UNION {{{Document(IdOf(i), f[i]) : i \in S} : f \in [S -> Fields]} : S \in SUBSET (1..n)}
Claims(n) ==
  [userId : {IdOf(i) : i \in 1..n}, email : Emails, rol : StoredRoles]

InitReq ==
  /\ nextId = MaxIds - 1
  /\ users \in Stores(nextId)
  /\ tokens \in {{t} : t \in Claims(nextId)}
  /\ config = AdminConfig
  /\ boot = "done"
  /\ boots = 1
  /\ posts = [s \in 1..MaxInflight |-> Idle]
  /\ last = NoLast
  /\ orders = {}
  /\ products = {}
  /\ io = NoIo
  /\ served = 0
  /\ record = TRUE

Fresh == last = NoLast /\ \A s \in 1..MaxInflight : posts[s] = Idle

NextReq ==
  \/ Fresh /\ \E body \in LoginBodies : Login(body)
  \/ Fresh /\ \E t \in tokens, uid \in Uids : GetUser(t, uid)
  \/ Fresh /\ \E t \in tokens, page \in Pages, limit \in Limits, fault \in StoreFaults :
                GetUsers(t, page, limit, fault)
  \/ Fresh /\ \E t \in tokens, uid \in Uids, body \in PatchBodies : PatchUser(t, uid, body)
  \/ Fresh /\ \E t \in tokens, uid \in Uids : DeleteUser(t, uid)
  \/ Fresh /\ \E s \in 1..MaxInflight, t \in tokens, body \in PostBodies : PostUsersFind(s, t, body)
  \/ \E s \in 1..MaxInflight : PostUsersInsert(s)

SpecReq == InitReq /\ [][NextReq]_vars

\* One recorded request on the orders or the products, served on any
\* collections the service can hold and for any claims a token can carry.
OrderFields == [client : {"c1"}, products : {"[p1]", "x"}, status : {"pending", "delivered"}]
OrderDocument(id, f) ==
  [_id |-> id, userId |-> IdOf(1), client |-> f.client, products |-> f.products,
   status |-> f.status]
OrderStores(S) == {{OrderDocument(IdOf(i), f[i]) : i \in S} : f \in [S -> OrderFields]}
ProductDocument(id) == [_id |-> id, name |-> "burger", price |-> "num:5"]

InitRes ==
  /\ nextId = MaxIds - 1
  /\ users = {}
  /\ \E S \in SUBSET (1..nextId) :
       /\ orders \in OrderStores(S)
       /\ products \in {{ProductDocument(IdOf(i)) : i \in P} : P \in SUBSET ((1..nextId) \ S)}
  /\ tokens \in {{t} : t \in Claims(nextId)}
  /\ config = AdminConfig
  /\ boot = "done"
  /\ boots = 1
  /\ posts = [s \in 1..MaxInflight |-> Idle]
  /\ last = NoLast
  /\ io = NoIo
  /\ served = 0
  /\ record = TRUE

NextRes ==
  \/ Fresh /\ \E t \in tokens, page \in Pages, limit \in Limits, fault \in StoreFaults :
                GetOrders(t, page, limit, fault)
  \/ Fresh /\ \E t \in tokens, body \in OrderPostBodies : PostOrders(t, body)
  \/ Fresh /\ \E t \in tokens, id \in ResourceIds, body \in OrderPatchBodies :
                PatchOrder(t, id, body)
  \/ Fresh /\ \E t \in tokens, id \in ResourceIds : DeleteOrder(t, id)
  \/ Fresh /\ \E t \in tokens, body \in ProductBodies : PostProducts(t, body)
  \/ Fresh /\ \E t \in tokens, id \in ResourceIds, body \in ProductBodies :
                PatchProduct(t, id, body)
  \/ Fresh /\ \E t \in tokens, id \in ResourceIds : DeleteProduct(t, id)
  \/ Fresh /\ \E s \in 1..MaxInflight, t \in tokens, body \in PostBodies : PostUsersFind(s, t, body)
  \/ \E s \in 1..MaxInflight : PostUsersInsert(s)

SpecRes == InitRes /\ [][NextRes]_vars

\* The orders collection over runs of creations, updates and deletions by an
\* admin whose token outlived her record: the store after she logged in and
\* deleted herself.
AdminToken == [userId |-> IdOf(1), email |-> AdminEmail, rol |-> "admin"]
RunOrderPostBodies ==
  {[userId |-> IdOf(1), client |-> "c1", products |-> "[p1]", status |-> "cooking"],
   [userId |-> IdOf(1), client |-> "c1", products |-> "x", status |-> Undefined],
   [userId |-> IdOf(1), client |-> "c1", products |-> "[]", status |-> "cooking"]}
RunOrderPatchBodies ==
  {[userId |-> Undefined, client |-> c, products |-> q, status |-> st] :
     c \in {Undefined, "c2"}, q \in {Undefined, "[p2]"},
     st \in {Undefined, "", "delivered", "preparing", "cooking"}}

InitOrd ==
  /\ users = {}
  /\ nextId = 1
  /\ tokens = {AdminToken}
  /\ config = AdminConfig
  /\ boot = "done"
  /\ boots = 1
  /\ posts = [s \in 1..MaxInflight |-> Idle]
  /\ last = NoLast
  /\ orders = {}
  /\ products = {}
  /\ io = NoIo
  /\ served = 0
  /\ record = FALSE

NextOrd ==
  \/ \E t \in tokens, body \in RunOrderPostBodies : PostOrders(t, body)
  \/ \E t \in tokens, id \in ResourceIds, body \in RunOrderPatchBodies : PatchOrder(t, id, body)
  \/ \E t \in tokens, id \in ResourceIds : DeleteOrder(t, id)

SpecOrd == InitOrd /\ [][NextOrd]_vars

\* A PATCH and a DELETE on /users in flight together: each handler issues one
\* store operation, findOneAndUpdate or findOneAndDelete, and the two run in
\* either order.  The store holds up to two records with their own emails,
\* and the tokens are those of logins on that store.
RacingRequests == 2
RaceEmail(n) == IF n = 1 THEN "a@x" ELSE "b@x"
RaceStores ==
  UNION {{{Document(IdOf(i), [email |-> RaceEmail(i), password |-> Hash(AdminPassword),
                              role |-> r[i]]) : i \in S} :
            r \in [S -> {"admin", "user"}]} : S \in (SUBSET {1, 2}) \ {{}}}
RaceBodies == {Body(e, p, Undefined) : e \in {Undefined, "a@x", "b@x"}, p \in {Undefined, "q"}}
RaceUids == Emails \cup {IdOf(1), IdOf(2)}

InitRace ==
  /\ nextId = 2
  /\ users \in RaceStores
  /\ tokens = {[userId |-> u._id, email |-> u.email, rol |-> u.role] : u \in users}
  /\ config = AdminConfig
  /\ boot = "done"
  /\ boots = 1
  /\ posts = [s \in 1..MaxInflight |-> Idle]
  /\ last = NoLast
  /\ orders = {}
  /\ products = {}
  /\ io = NoIo
  /\ served = 0
  /\ record = TRUE

NextRace ==
  \/ /\ served < RacingRequests
     /\ last.op # "PATCH"
     /\ \E t \in tokens, uid \in RaceUids, body \in RaceBodies : PatchUser(t, uid, body)
  \/ /\ served < RacingRequests
     /\ last.op # "DELETE"
     /\ \E t \in tokens, uid \in RaceUids : DeleteUser(t, uid)

SpecRace == InitRace /\ [][NextRace]_vars

\* initAdminUser run at each of MaxBoots starts, on any store the service can hold.
InitBoot ==
  /\ nextId = MaxIds - 1
  /\ users \in Stores(nextId)
  /\ tokens = {}
  /\ config \in Configs
  /\ boot = "start"
  /\ boots = 1
  /\ posts = [s \in 1..MaxInflight |-> Idle]
  /\ last = NoLast
  /\ orders = {}
  /\ products = {}
  /\ io = NoIo
  /\ served = 0
  /\ record = FALSE

\* the configuration is the same at every start
NextBoot == InitAdminUser \/ (Restart /\ config' = config)

SpecBoot == InitBoot /\ [][NextBoot]_vars

TypeOK ==
  /\ nextId \in 0..MaxIds
  /\ Cardinality(tokens) <= MaxTokens
  /\ boots \in 1..MaxBoots

\* ============================================================== properties
\* the claims' vocabulary, in terms of the token's claims and the request
OwnOrAdmin(t, uid) == uid = t.userId \/ uid = t.email \/ t.rol = "admin"
Own(t, uid) == uid = t.userId \/ uid = t.email
Answered == last' # last
ValidUpdate(body) == body # EmptyBody /\ body.email # "" /\ body.password # ""
WithEmail(us, e) == {u \in us : u.email = e}
Max(a, b) == IF a >= b THEN a ELSE b
\* the records a uid names, by identifier or by email
Target(us, uid) == {u \in us : u._id = uid \/ u.email = uid}

\* C1 as stated: GET, DELETE and PATCH with a non-empty body without a role
\* field are not answered with 403 exactly when the uid is the caller's
\* identifier or email, or the caller is admin.
C1_NotDeniedIffOwnOrAdmin ==
  (\/ last.op \in {"GET", "DELETE"}
   \/ last.op = "PATCH" /\ last.body # EmptyBody /\ last.body.role = Undefined)
  => ((last.status # 403) <=> OwnOrAdmin(last.caller, last.uid))

\* C1 amended: the same equivalence, for PATCH only over bodies whose email
\* and password are not the empty string (those are answered 400 before the
\* authorization is looked at).
C1_NotDeniedIffOwnOrAdminValidBody ==
  (\/ last.op \in {"GET", "DELETE"}
   \/ last.op = "PATCH" /\ ValidUpdate(last.body) /\ last.body.role = Undefined)
  => ((last.status # 403) <=> OwnOrAdmin(last.caller, last.uid))

C1_Witness ==
  /\ last.op = "GET"
  /\ last.caller.rol # "admin"
  /\ last.uid = last.caller.email
  /\ last.uid # last.caller.userId
  /\ last.status = 200

\* C2: a PATCH by a non-admin caller on their own stored record whose body has
\* the role field present (any value; bodies that pass the empty-update check)
\* is answered 403 and leaves the users collection as it was.
C2_RoleFieldDeniedForNonAdmin ==
  [][(/\ Answered
      /\ last'.op = "PATCH"
      /\ last'.caller.rol # "admin"
      /\ Own(last'.caller, last'.uid)
      /\ Target(users, last'.uid) # {}
      /\ \A u \in Target(users, last'.uid) : u._id = last'.caller.userId
      /\ ValidUpdate(last'.body)
      /\ last'.body.role # Undefined)
     => (last'.status = 403 /\ users' = users)]_vars

\* C3: a PATCH whose body is {} or has an empty-string email or password is
\* answered 400 whoever the caller and whatever the target, authorized or
\* not, and the users collection is unchanged.
C3_EmptyUpdateIs400 ==
  [][(/\ Answered
      /\ last'.op = "PATCH"
      /\ (last'.body = EmptyBody \/ last'.body.email = "" \/ last'.body.password = ""))
     => (last'.status = 400 /\ users' = users)]_vars

C3_Witness ==
  /\ last.op = "PATCH"
  /\ last.body = EmptyBody
  /\ ~OwnOrAdmin(last.caller, last.uid)
  /\ last.status = 400

\* C4 as stated: a PATCH by a non-admin caller whose identifier and email both
\* differ from the target is answered 403 for every body.
C4_StrangerDeniedAnyBody ==
  (last.op = "PATCH" /\ ~OwnOrAdmin(last.caller, last.uid)) => last.status = 403

\* C4 amended: such a PATCH is answered 403 for every body that names a field
\* and has no empty-string email or password; the other bodies are answered 400.
C4_StrangerDeniedValidBody ==
  (last.op = "PATCH" /\ ~OwnOrAdmin(last.caller, last.uid))
  => last.status = (IF ValidUpdate(last.body) THEN 403 ELSE 400)

C4_Witness ==
  /\ last.op = "PATCH"
  /\ ~OwnOrAdmin(last.caller, last.uid)
  /\ last.body = Body(Undefined, "q", Undefined)
  /\ last.status = 403

\* C5: no two user records have the same email, in every state the service
\* reaches from its first start.
C5_EmailUnique ==
  \A u \in users, v \in users : u.email = v.email => u = v

\* C6: an admin's POST /users with non-empty email, password and role, found
\* to name the email of an existing record, is answered 403 and inserts
\* nothing: the users collection is the same before and after.
C6_DuplicateEmailIsConflict ==
  [][(/\ Answered
      /\ last'.op = "POST"
      /\ last'.caller.rol = "admin"
      /\ last'.body.email \notin {Undefined, Null, ""}
      /\ last'.body.password \notin {Undefined, Null, ""}
      /\ last'.body.role \notin {Undefined, Null, ""}
      /\ WithEmail(users, last'.body.email) # {})
     => (last'.status = 403 /\ users' = users)]_vars

C6_Witness ==
  /\ last.op = "POST"
  /\ last.caller.rol = "admin"
  /\ last.body.role = "user"
  /\ WithEmail(users, last.body.email) # {}
  /\ last.status = 403

\* C7: an authorized GET /users/:uid looks the record up by email when the uid
\* contains '@' and by identifier when the uid is a 24 hex string; for the
\* identifier of an existing user the answer is 200 with that user's id,
\* email and role.
C7_ReadResolvesEmailOrId ==
  (last.op = "GET" /\ OwnOrAdmin(last.caller, last.uid))
  => /\ Includes(last.uid, "@") =>
          IF WithEmail(users, last.uid) # {}
          THEN last.status = 200 /\ last.out.email = last.uid
          ELSE last.status = 404
     /\ \A u \in users : u._id = last.uid =>
          /\ last.status = 200
          /\ last.out = [id |-> u._id, email |-> u.email, role |-> u.role]

\* C8: GET, PATCH (with a body that names a field and has no empty email or
\* password) and DELETE by an admin, with a uid that has no '@' and is not a
\* 24 hex string, are answered 404 and leave the users collection unchanged.
C8_MalformedUidIsNotFound ==
  [][(/\ Answered
      /\ last'.op \in {"GET", "PATCH", "DELETE"}
      /\ last'.caller.rol = "admin"
      /\ last'.op = "PATCH" => ValidUpdate(last'.body)
      /\ ~Includes(last'.uid, "@")
      /\ ~IsHex24(last'.uid))
     => (last'.status = 404 /\ users' = users)]_vars

\* C9 as stated: after initAdminUser has run twice with the same configured
\* admin email and password, exactly one record has that email, with role admin.
C9_ExactlyOneAdminRecord ==
  (boots >= 2 /\ boot = "done" /\ config = AdminConfig)
  => /\ Cardinality(WithEmail(users, AdminEmail)) = 1
     /\ \A u \in WithEmail(users, AdminEmail) : u.role = "admin"

\* C9 amended: a run of initAdminUser with a configured admin leaves as many
\* records with the admin email as it found, or one if it found none; what it
\* inserts is one record with that email and role admin; the second of two runs
\* with the same configuration inserts nothing; a run without adminEmail or
\* adminPassword leaves the store alone; every run calls next.
C9_BootstrapIdempotent ==
  [][(boot = "start" /\ boot' = "done")
     => IF config = AdminConfig
        THEN /\ users \subseteq users'
             /\ Cardinality(WithEmail(users', AdminEmail))
                  = Max(1, Cardinality(WithEmail(users, AdminEmail)))
             /\ \A u \in users' \ users : u.email = AdminEmail /\ u.role = "admin"
             /\ boots >= 2 => users' = users
        ELSE users' = users]_vars

C9_Witness ==
  /\ boots = 2
  /\ boot = "done"
  /\ config = AdminConfig
  /\ nextId = MaxIds
  /\ Cardinality(WithEmail(users, AdminEmail)) = 1

\* C10: a GET, POST, PATCH or DELETE on /users that is answered 403 has written
\* nothing: the users collection is the same before and after.
C10_DeniedWritesNothing ==
  [][(/\ Answered
      /\ last'.op \in {"GET", "POST", "PATCH", "DELETE"}
      /\ last'.status = 403)
     => users' = users]_vars

C10_Witness ==
  /\ last.op = "DELETE"
  /\ last.status = 403
  /\ \E u \in users : u._id = last.uid \/ u.email = last.uid

\* C11: a create request that reaches its handler without a required field
\* (POST /users without email, password or role, POST /products without name
\* or price, POST /orders without userId or with no products) is answered 400,
\* has opened no connection and issued no query, and the collections are as
\* they were.
MissingField(op, body) ==
  \/ op = "POST" /\ (\/ body.email \in {Undefined, ""}
                     \/ body.password \in {Undefined, ""}
                     \/ body.role \in {Undefined, ""})
  \/ op = "POST /products" /\ (body.name \in {Undefined, ""} \/ body.price \in {Undefined, ""})
  \/ op = "POST /orders" /\ (\/ body.userId \in {Undefined, ""}
                             \/ body.products \in {Undefined, "", "[]"})

ReachesHandler(op, t) == op = "POST /orders" \/ t.rol = "admin"

C12_ListingAdminOnly ==
  [][(Answered /\ last'.op = "GET /users")
     => /\ last'.caller.rol # "admin"
           => (last'.status = 403 /\ last'.out.list = {} /\ io'.queries = 0)
        /\ last'.status = 200 => last'.caller.rol = "admin"]_vars

C12_Witness ==
  /\ last.op = "GET /users"
  /\ last.caller.rol = "user"
  /\ last.status = 403
  /\ users # {}

C14_OrderDeleteAnyCaller ==
  [][(/\ Answered
      /\ last'.op = "DELETE /orders"
      /\ \E o \in orders : o._id = last'.uid)
     => /\ last'.status = 200
        /\ orders' = {o \in orders : o._id # last'.uid}]_vars

\* C15: an admin's DELETE, or PATCH with a valid non-empty body, on
\* /users/:uid where uid is a 24 hex identifier or an email that no stored
\* record has is answered 404 and leaves the users collection as it was.
C15_MissingTargetIs404 ==
  [][(/\ Answered
      /\ last'.op \in {"PATCH", "DELETE"}
      /\ last'.caller.rol = "admin"
      /\ last'.op = "PATCH" => ValidUpdate(last'.body)
      /\ last'.uid \in Emails \cup {IdOf(n) : n \in 1..MaxIds}
      /\ Target(users, last'.uid) = {})
     => /\ last'.status = 404
        /\ users' = users]_vars

C15_Witness ==
  /\ last.op = "PATCH"
  /\ last.caller.rol = "admin"
  /\ last.body = Body(Undefined, "q", Undefined)
  /\ last.uid = IdOf(MaxIds)
  /\ last.status = 404
  /\ users # {}

C17_ConnectionsClosed ==
  last.op # "none" => io.closed = io.opened

\* C18: a request during which the store rejected the connect or a query has
\* been forwarded to the fault handler through next(err): it has an outcome,
\* and the rejection did not escape the handler.
C18_StoreFailureForwarded ==
  io.failed => last.status = NextErr

\* C19: an admin's PATCH /orders/:orderId for a stored order with a non-empty
\* body that names no status is answered 200 and the named fields are
\* updated; 400 is only the answer to a body that names nothing, names an
\* empty value or names a status outside the recognised ones.
C19_StatusOptional ==
  [][(/\ Answered
      /\ last'.op = "PATCH /orders"
      /\ last'.caller.rol = "admin"
      /\ \E o \in orders : o._id = last'.uid /\ o.products = "[p1]"
      /\ last'.body.status = Undefined
      /\ last'.body.client = "c2"
      /\ last'.body.userId \notin {""}
      /\ last'.body.products \in {Undefined, "[p2]"})
     => /\ last'.status = 200
        /\ \E o \in orders' : o._id = last'.uid /\ o.client = "c2"]_vars

\* C20: over every run of logins, creations, updates and deletions in which
\* no two stored records share an email, a PATCH or DELETE /users/:uid made
\* with a token whose claims are not an admin's neither changes nor removes a
\* record whose _id is not the userId of the claims - also when uid is an
\* email and emails have changed hands since the token was signed.
EmailsDistinct(us) == \A u \in us, v \in us : u.email = v.email => u = v

C20_NonAdminTouchesOwnRecordOnly ==
  [][\A t \in tokens, uid \in RunUids :
       (t.rol # "admin" /\ EmailsDistinct(users))
       => \A u \in users :
            (/\ u._id # t.userId
             /\ \/ DeleteUser(t, uid)
                \/ \E body \in RunPatchBodies : PatchUser(t, uid, body))
            => u \in users']_vars

\* C21: in every reachable state the password of every stored user record is
\* a hash produced by bcrypt: initAdminUser, POST /users and every accepted
\* PATCH /users/:uid body write no other value.
Plaintexts == {AdminPassword, "q"}

C21_PasswordsHashed ==
  \A u \in users : u.password \in {Hash(p) : p \in Plaintexts}

\* C22: in every reachable state every stored order has one of the statuses
\* pending, canceled, delivering, delivered, preparing; an order that enters
\* the collection enters it with status pending, whatever status the request
\* body names.
C22_OrderStatusRecognised ==
  /\ [](\A o \in orders :
          o.status \in {"pending", "canceled", "delivering", "delivered", "preparing"})
  /\ [][\A o \in orders' :
          (\A e \in orders : e._id # o._id) => o.status = "pending"]_vars

C22_Witness ==
  /\ nextId = MaxIds
  /\ \E o \in orders : o.status = "preparing" /\ o.client = "c2"
  /\ \E o \in orders : o.status = "pending"

\* The second of a racing PATCH and DELETE completes: both name record n of
\* the store they were sent to, by its identifier or its email, both callers
\* are the record's owner or an admin, the PATCH body is a valid update, and
\* the first store operation found the record.
Names(uid, n) == uid = IdOf(n) \/ uid = RaceEmail(n)
Absent(us, n) == \A u \in us : u._id # IdOf(n)
RaceOn(n) ==
  /\ served = 1 /\ served' = 2
  /\ Names(last.uid, n) /\ Names(last'.uid, n)
  /\ OwnOrAdmin(last.caller, last.uid) /\ OwnOrAdmin(last'.caller, last'.uid)
  /\ ValidUpdate(IF last.op = "PATCH" THEN last.body ELSE last'.body)
  /\ last.status = 200

\* C23 as stated: whichever store operation runs first, the DELETE is
\* answered 200 and the record is absent at the end; a PATCH that runs second
\* is answered 404.
C23_DeleteAlwaysWins ==
  [][\A n \in {1, 2} :
       RaceOn(n)
       => /\ Absent(users', n)
          /\ last'.status = IF last'.op = "DELETE" THEN 200 ELSE 404]_vars

\* C23 amended: a PATCH that runs second is answered 404 and the record stays
\* absent; a DELETE that runs second is answered 200 and removes the updated
\* record, unless it names the record by the email the PATCH has just
\* replaced: then it is answered 404 and the record stays, with its new email.
C23_SerialOutcome ==
  [][\A n \in {1, 2} :
       RaceOn(n)
       => IF last'.op = "PATCH"
          THEN last'.status = 404 /\ Absent(users', n) /\ users' = users
          ELSE IF last.body.email \notin {Undefined, RaceEmail(n)}
                  /\ last'.uid = RaceEmail(n)
          THEN /\ last'.status = 404
               /\ users' = users
               /\ \E u \in users' : u._id = IdOf(n) /\ u.email = last.body.email
          ELSE last'.status = 200 /\ Absent(users', n)]_vars

C23_Witness ==
  /\ served = 2
  /\ last.op = "DELETE"
  /\ last.uid = "a@x"
  /\ last.caller.email = "a@x"
  /\ last.status = 404
  /\ \E u \in users : u._id = IdOf(1) /\ u.email = "b@x" /\ u.password = Hash("q")

\* C24: no response of a users endpoint carries a password: the 200 answers
\* of GET, POST, PATCH and DELETE carry an id, an email and a role, and every
\* element of the GET /users listing carries only _id, email and role.
C24_NoPasswordInResponses ==
  /\ (last.op \in {"GET", "POST", "PATCH", "DELETE"} /\ last.status = 200)
     => DOMAIN last.out = {"id", "email", "role"}
  /\ (last.op = "GET /users" /\ last.status = 200)
     => \A d \in last.out.list : "password" \notin DOMAIN d
====
